---- MODULE Spec2Model ----
(***************************************************************************)
(* Model of the domain-decomposed time evolution of src/h_parallel.cpp     *)
(* (and its copy src/10k/h_parallel_10k.cpp) together with the serial      *)
(* sweep of src/h_serial.cpp.                                              *)
(*                                                                         *)
(* Every MPI rank is a process with a program counter.  Messages in flight *)
(* are kept per ordered pair of ranks, in sending order, and a receive     *)
(* takes the earliest message of the pair that carries the requested tag   *)
(* (MPI's matching rule).  A complex<double> is a pair <<re, im>> of       *)
(* fixed-point numbers with denominator Scale, every product rounded to    *)
(* the nearest representable value, as every floating-point product is.    *)
(***************************************************************************)
EXTENDS Integers, Sequences, FiniteSets, Bags, TLC

\* ------------------------------------------------------------------ bounds
MaxN == 5
MaxSize == 3
MaxSteps == 2

\* --------------------------------------------------------------- constants
\* Denominator of the fixed-point representation of a double.
Scale == 16384
\* cos(J*dt) and sin(J*dt) for dt = 0.01, J = 1.0, as multiples of 1/Scale.
COS_JDT == 16383
SIN_JDT == 164
MPI_PROC_NULL == -1

VARIABLES
    N,            \* argv[1]
    size,         \* MPI_Comm_size
    steps,        \* the step count
    eager,        \* TRUE: a standard-mode send returns once buffered;
                  \* FALSE: it returns only when the message was received
    pc,           \* per rank: position in main
    local_N,      \* per rank
    psi,          \* per rank: the local segment (1-based here, 0-based in C++)
    s,            \* per rank: the step loop's counter
    i,            \* per rank: the sweep loop's counter
    left_send, right_send, left_recv, right_recv,
    left_rank, right_rank,
    sent, rcvd,   \* per rank: the two halves of the MPI_Sendrecv in progress
    inBarrier,    \* per rank: has entered MPI_Barrier
    chan,         \* <<src, dst>> -> sequence of [tag, val, step] in flight;
                  \* step is history: the sender's s when it sent
    startB,       \* history, per rank: <<psi[0], psi[local_N-1]>> at the
                  \* start of each step
    haloW,        \* history, per rank: the indices (0-based) written by the
                  \* boundary overwrite of the current step
    junk,         \* per rank: what the memory at &psi[0] (lo) and at
                  \* &psi[local_N-1] (hi) holds when the segment is empty
    sentLog,      \* history: the bag of [src, dst, tag, step] ever sent
    rcvdLog,      \* history: the bag of [src, dst, tag, step] ever received
    sweep0,       \* history, per rank: the segment when the current sweep began
    sweepW,       \* history, per rank: how often the current sweep has written
                  \* each element
    acc           \* history, per rank: the indices (0-based) of psi the rank's
                  \* latest access to the segment used

vars == <<N, size, steps, eager, pc, local_N, psi, s, i, left_send, right_send,
          left_recv, right_recv, left_rank, right_rank, sent, rcvd, inBarrier,
          chan, startB, haloW, junk, sentLog, rcvdLog, sweep0, sweepW, acc>>

Ranks == 0 .. (size - 1)

\* ------------------------------------------------------ complex arithmetic
\* A product of two fixed-point numbers, rounded to nearest.
FxMul(a, b) == (a * b + (Scale \div 2)) \div Scale

CZero == <<0, 0>>
COne == <<Scale, 0>>

\* double * complex<double>
CScale(c, z) == <<FxMul(c, z[1]), FxMul(c, z[2])>>

\* (1i * sn) * z  =  (0, sn) * (re, im)  =  (-sn*im, sn*re)
CMulI(sn, z) == <<0 - FxMul(sn, z[2]), FxMul(sn, z[1])>>

CSub(a, b) == <<a[1] - b[1], a[2] - b[2]>>

\* Variant: without temp, the second assignment reading the psi[i] the first
\* one has just written.
PairUpdateNoTemp(seg, k) ==
    LET a == CSub(CScale(COS_JDT, seg[k]), CMulI(SIN_JDT, seg[k + 1]))
        b == CSub(CScale(COS_JDT, seg[k + 1]), CMulI(SIN_JDT, a))
    IN  [seg EXCEPT ![k] = a, ![k + 1] = b]

\* The two assignments of one pair: k is the 1-based position of psi[i].
PairUpdate(seg, k) ==
    LET temp == seg[k]
        a == CSub(CScale(COS_JDT, seg[k]), CMulI(SIN_JDT, seg[k + 1]))
        b == CSub(CScale(COS_JDT, seg[k + 1]), CMulI(SIN_JDT, temp))
    IN  [seg EXCEPT ![k] = a, ![k + 1] = b]

\* ------------------------------------------------------------ partitioning
\* Variant: the comparison of line 40 off by one (rank <= rem).
LocalNOffByOne(n, sz, rank) ==
    LET base == n \div sz
        rem == n % sz
    IN  base + (IF rank <= rem THEN 1 ELSE 0)

\* Variant: the remainder handed to the highest ranks instead of the lowest.
LocalNHighRanks(n, sz, rank) ==
    LET base == n \div sz
        rem == n % sz
    IN  base + (IF rank >= sz - rem THEN 1 ELSE 0)

LocalN(n, sz, rank) ==
    LET base == n \div sz
        rem == n % sz
    IN  base + (IF rank < rem THEN 1 ELSE 0)

\* Variant: a periodic domain, rank 0's left neighbour being the last rank.
LeftRankWrap(rank) == IF rank = 0 THEN size - 1 ELSE rank - 1

LeftRank(rank) == IF rank = 0 THEN MPI_PROC_NULL ELSE rank - 1

\* Variant: a periodic domain, the last rank's right neighbour being rank 0.
RightRankWrap(rank, sz) == IF rank = sz - 1 THEN 0 ELSE rank + 1

RightRank(rank, sz) == IF rank = sz - 1 THEN MPI_PROC_NULL ELSE rank + 1

\* Values the memory around an empty segment may hold at startup.
GarbageVals == {CZero, COne}

\* ------------------------------------------------------------------- Init
Init ==
    /\ N \in 1 .. MaxN
    /\ size \in 1 .. MaxSize
    /\ steps \in 1 .. MaxSteps
    /\ eager \in BOOLEAN
    /\ pc = [r \in Ranks |-> "start"]
    /\ local_N = [r \in Ranks |-> 0]
    /\ psi = [r \in Ranks |-> <<>>]
    /\ s = [r \in Ranks |-> 0]
    /\ i = [r \in Ranks |-> 0]
    /\ left_send = [r \in Ranks |-> CZero]
    /\ right_send = [r \in Ranks |-> CZero]
    /\ left_recv = [r \in Ranks |-> CZero]
    /\ right_recv = [r \in Ranks |-> CZero]
    /\ left_rank = [r \in Ranks |-> MPI_PROC_NULL]
    /\ right_rank = [r \in Ranks |-> MPI_PROC_NULL]
    /\ sent = [r \in Ranks |-> FALSE]
    /\ rcvd = [r \in Ranks |-> FALSE]
    /\ inBarrier = [r \in Ranks |-> FALSE]
    /\ chan = [e \in Ranks \X Ranks |-> <<>>]
    /\ startB = [r \in Ranks |-> <<>>]
    /\ haloW = [r \in Ranks |-> {}]
    /\ \E g \in GarbageVals :
          junk = [r \in Ranks |-> IF LocalN(N, size, r) >= 1
                                  THEN [lo |-> CZero, hi |-> CZero]
                                  ELSE [lo |-> g, hi |-> g]]
    /\ sentLog = EmptyBag
    /\ rcvdLog = EmptyBag
    /\ sweep0 = [r \in Ranks |-> <<>>]
    /\ sweepW = [r \in Ranks |-> <<>>]
    /\ acc = [r \in Ranks |-> {}]

\* ---------------------------------------------------------------- actions
\* Lines 33-42: the decomposition and the allocation of the segment.
Partition(r) ==
    /\ pc[r] = "start"
    /\ local_N' = [local_N EXCEPT ![r] = LocalN(N, size, r)]
    /\ psi' = [psi EXCEPT ![r] = [k \in 1 .. LocalN(N, size, r) |-> COne]]
    /\ pc' = [pc EXCEPT ![r] = "barrier"]
    /\ UNCHANGED <<N, size, steps, eager, s, i, left_send, right_send,
                   left_recv, right_recv, left_rank, right_rank, sent, rcvd,
                   inBarrier, chan, startB, haloW, junk, sentLog, rcvdLog,
                   sweep0, sweepW, acc>>

\* Line 45: MPI_Barrier, entered ...
BarrierEnter(r) ==
    /\ pc[r] = "barrier"
    /\ ~inBarrier[r]
    /\ inBarrier' = [inBarrier EXCEPT ![r] = TRUE]
    /\ UNCHANGED <<N, size, steps, eager, pc, local_N, psi, s, i, left_send,
                   right_send, left_recv, right_recv, left_rank, right_rank,
                   sent, rcvd, chan, startB, haloW, junk, sentLog, rcvdLog,
                   sweep0, sweepW, acc>>

\* ... and left once every rank has entered it; s = 0 of line 48.
BarrierLeave(r) ==
    /\ pc[r] = "barrier"
    /\ \A q \in Ranks : inBarrier[q]
    /\ pc' = [pc EXCEPT ![r] = "loop"]
    /\ s' = [s EXCEPT ![r] = 0]
    /\ UNCHANGED <<N, size, steps, eager, local_N, psi, i, left_send,
                   right_send, left_recv, right_recv, left_rank, right_rank,
                   sent, rcvd, inBarrier, chan, startB, haloW, junk, sentLog,
                   rcvdLog, sweep0, sweepW, acc>>

\* Line 48 (s < steps) and lines 49-53, for a non-empty segment.
StepBegin(r) ==
    /\ pc[r] = "loop"
    /\ s[r] < steps
    /\ local_N[r] >= 1
    /\ left_recv' = [left_recv EXCEPT ![r] = CZero]
    /\ right_recv' = [right_recv EXCEPT ![r] = CZero]
    /\ left_send' = [left_send EXCEPT ![r] = psi[r][1]]
    /\ right_send' = [right_send EXCEPT ![r] = psi[r][local_N[r]]]
    /\ left_rank' = [left_rank EXCEPT ![r] = LeftRank(r)]
    /\ right_rank' = [right_rank EXCEPT ![r] = RightRank(r, size)]
    /\ startB' = [startB EXCEPT ![r] = Append(@, <<psi[r][1], psi[r][local_N[r]]>>)]
    /\ haloW' = [haloW EXCEPT ![r] = {}]
    /\ acc' = [acc EXCEPT ![r] = {0, local_N[r] - 1}]
    /\ pc' = [pc EXCEPT ![r] = "sendrecv0"]
    /\ UNCHANGED <<N, size, steps, eager, local_N, psi, s, i, sent, rcvd,
                   inBarrier, chan, junk, sentLog, rcvdLog, sweep0, sweepW>>

\* The same lines when local_N = 0: psi[0] and psi[local_N - 1] are reads
\* outside the (empty) vector, undefined behaviour.  The process either
\* faults, on which the MPI runtime kills every rank of the job, or goes on
\* with what the memory at the two addresses holds.
StepBeginUB(r) ==
    /\ pc[r] = "loop"
    /\ s[r] < steps
    /\ local_N[r] < 1
    /\ \/ /\ pc' = [q \in Ranks |-> "aborted"]
          /\ UNCHANGED <<left_send, right_send, left_recv, right_recv,
                         left_rank, right_rank, haloW, acc>>
       \/ /\ left_recv' = [left_recv EXCEPT ![r] = CZero]
          /\ right_recv' = [right_recv EXCEPT ![r] = CZero]
          /\ left_send' = [left_send EXCEPT ![r] = junk[r].lo]
          /\ right_send' = [right_send EXCEPT ![r] = junk[r].hi]
          /\ left_rank' = [left_rank EXCEPT ![r] = LeftRank(r)]
          /\ right_rank' = [right_rank EXCEPT ![r] = RightRank(r, size)]
          /\ haloW' = [haloW EXCEPT ![r] = {}]
          /\ acc' = [acc EXCEPT ![r] = {0, local_N[r] - 1}]
          /\ pc' = [pc EXCEPT ![r] = "sendrecv0"]
    /\ UNCHANGED <<N, size, steps, eager, local_N, psi, s, i, sent, rcvd,
                   inBarrier, chan, startB, junk, sentLog, rcvdLog, sweep0,
                   sweepW>>

\* Line 48 with s >= steps, then lines 75-79.
LoopExit(r) ==
    /\ pc[r] = "loop"
    /\ s[r] >= steps
    /\ pc' = [pc EXCEPT ![r] = "done"]
    /\ UNCHANGED <<N, size, steps, eager, local_N, psi, s, i, left_send,
                   right_send, left_recv, right_recv, left_rank, right_rank,
                   sent, rcvd, inBarrier, chan, startB, haloW, junk, sentLog,
                   rcvdLog, sweep0, sweepW, acc>>

\* ------------------------------------------------- the two MPI_Sendrecv
\* ph = 0 is the call of lines 55-57, ph = 1 the call of lines 59-61.
SrPc(ph) == IF ph = 0 THEN "sendrecv0" ELSE "sendrecv1"

\* Variant: left_send passed to both calls.
SendBufSame(r, ph) == left_send[r]

SendBuf(r, ph) == IF ph = 0 THEN left_send[r] ELSE right_send[r]

Dest(r, ph) == IF ph = 0 THEN left_rank[r] ELSE right_rank[r]

SendTag(ph) == IF ph = 0 THEN 0 ELSE 1

\* Variant: the second call receives from nobody.
SourceRightOnly(r, ph) == IF ph = 0 THEN right_rank[r] ELSE MPI_PROC_NULL

\* Variant: the first call receives from nobody.
SourceLeftOnly(r, ph) == IF ph = 0 THEN MPI_PROC_NULL ELSE left_rank[r]

\* Variant: MPI_PROC_NULL passed as the source of both calls.
SourceAbsent(r, ph) == MPI_PROC_NULL

Source(r, ph) == IF ph = 0 THEN right_rank[r] ELSE left_rank[r]

\* Variant: the receive tags of the two calls exchanged.
RecvTagSwapped(ph) == IF ph = 0 THEN 1 ELSE 0

RecvTag(ph) == IF ph = 0 THEN 0 ELSE 1

\* The position in q of the earliest message with this tag, 0 if none.
MsgIndex(q, tag) ==
    IF \E k \in 1 .. Len(q) : q[k].tag = tag
    THEN CHOOSE k \in 1 .. Len(q) :
            /\ q[k].tag = tag
            /\ \A j \in 1 .. (k - 1) : q[j].tag # tag
    ELSE 0

\* Variant: a receive that leaves the message it matched in the queue.
RemoveAtKeeps(q, k) == q

RemoveAt(q, k) == SubSeq(q, 1, k - 1) \o SubSeq(q, k + 1, Len(q))

\* Variant: the first call's return leading straight to lines 64-65.
AfterCallSkipsSecond(ph) == "overwrite"

\* Where main continues when the call returns.
AfterCall(ph) == IF ph = 0 THEN "sendrecv1" ELSE "overwrite"

\* Whether the send half, once started, is complete: at once when the message
\* is buffered, and when it has been received otherwise.
SendComplete(r, ph) ==
    IF eager \/ Dest(r, ph) = MPI_PROC_NULL
    THEN TRUE
    ELSE MsgIndex(chan[<<r, Dest(r, ph)>>], SendTag(ph)) = 0

\* The send half: nothing happens for MPI_PROC_NULL.  The call returns with
\* it when the receive half is done and the send completes at once.
SendPart(r, ph) ==
    /\ pc[r] = SrPc(ph)
    /\ ~sent[r]
    /\ IF Dest(r, ph) = MPI_PROC_NULL
       THEN UNCHANGED <<chan, sentLog>>
       ELSE /\ chan' = [chan EXCEPT ![<<r, Dest(r, ph)>>] =
                           Append(@, [tag |-> SendTag(ph), val |-> SendBuf(r, ph),
                                      step |-> s[r]])]
            /\ sentLog' = sentLog (+) SetToBag({[src |-> r, dst |-> Dest(r, ph),
                                                 tag |-> SendTag(ph), step |-> s[r]]})
    /\ IF rcvd[r] /\ (eager \/ Dest(r, ph) = MPI_PROC_NULL)
       THEN /\ pc' = [pc EXCEPT ![r] = AfterCall(ph)]
            /\ sent' = sent
            /\ rcvd' = [rcvd EXCEPT ![r] = FALSE]
       ELSE /\ sent' = [sent EXCEPT ![r] = TRUE]
            /\ UNCHANGED <<pc, rcvd>>
    /\ UNCHANGED <<N, size, steps, eager, local_N, psi, s, i, left_send,
                   right_send, left_recv, right_recv, left_rank, right_rank,
                   inBarrier, startB, haloW, junk, rcvdLog, sweep0, sweepW, acc>>

\* The receive half: done at once, buffer untouched, for MPI_PROC_NULL;
\* otherwise it waits for a matching message.  The call returns with it when
\* the send half is complete.
RecvPart(r, ph) ==
    /\ pc[r] = SrPc(ph)
    /\ ~rcvd[r]
    /\ IF Source(r, ph) = MPI_PROC_NULL
       THEN UNCHANGED <<chan, left_recv, right_recv, rcvdLog>>
       ELSE LET q == chan[<<Source(r, ph), r>>]
                k == MsgIndex(q, RecvTag(ph))
            IN  /\ k > 0
                /\ chan' = [chan EXCEPT ![<<Source(r, ph), r>>] = RemoveAt(q, k)]
                /\ rcvdLog' = rcvdLog (+) SetToBag({[src |-> Source(r, ph), dst |-> r,
                                                     tag |-> q[k].tag, step |-> q[k].step]})
                /\ IF ph = 0
                   THEN /\ right_recv' = [right_recv EXCEPT ![r] = q[k].val]
                        /\ UNCHANGED left_recv
                   ELSE /\ left_recv' = [left_recv EXCEPT ![r] = q[k].val]
                        /\ UNCHANGED right_recv
    /\ IF sent[r] /\ SendComplete(r, ph)
       THEN /\ pc' = [pc EXCEPT ![r] = AfterCall(ph)]
            /\ sent' = [sent EXCEPT ![r] = FALSE]
            /\ rcvd' = rcvd
       ELSE /\ rcvd' = [rcvd EXCEPT ![r] = TRUE]
            /\ UNCHANGED <<pc, sent>>
    /\ UNCHANGED <<N, size, steps, eager, local_N, psi, s, i, left_send,
                   right_send, left_rank, right_rank, inBarrier, startB,
                   haloW, junk, sentLog, sweep0, sweepW, acc>>

\* Both halves are done and the call was waiting for its message to be
\* received: it returns.
SendrecvReturn(r, ph) ==
    /\ pc[r] = SrPc(ph)
    /\ sent[r]
    /\ rcvd[r]
    /\ SendComplete(r, ph)
    /\ sent' = [sent EXCEPT ![r] = FALSE]
    /\ rcvd' = [rcvd EXCEPT ![r] = FALSE]
    /\ pc' = [pc EXCEPT ![r] = AfterCall(ph)]
    /\ UNCHANGED <<N, size, steps, eager, local_N, psi, s, i, left_send,
                   right_send, left_recv, right_recv, left_rank, right_rank,
                   inBarrier, chan, startB, haloW, junk, sentLog, rcvdLog,
                   sweep0, sweepW, acc>>

\* ---------------------------------------------- lines 63-65: boundaries
\* Variant: the two receive buffers exchanged.
OverwriteSegSwapped(seg, n, lrank, rrank, lrecv, rrecv) ==
    LET a == IF lrank # MPI_PROC_NULL THEN [seg EXCEPT ![1] = rrecv] ELSE seg
    IN  IF rrank # MPI_PROC_NULL THEN [a EXCEPT ![n] = lrecv] ELSE a

\* Variant: the right halo value stored one element too far inside.
OverwriteSegInside(seg, n, lrank, rrank, lrecv, rrecv) ==
    LET a == IF lrank # MPI_PROC_NULL THEN [seg EXCEPT ![1] = lrecv] ELSE seg
    IN  IF rrank # MPI_PROC_NULL
        THEN [a EXCEPT ![IF n >= 3 THEN n - 1 ELSE n] = rrecv]
        ELSE a

\* n is local_N >= 1.
OverwriteSeg(seg, n, lrank, rrank, lrecv, rrecv) ==
    LET a == IF lrank # MPI_PROC_NULL THEN [seg EXCEPT ![1] = lrecv] ELSE seg
    IN  IF rrank # MPI_PROC_NULL THEN [a EXCEPT ![n] = rrecv] ELSE a

\* Variant: the right halo value stored one past the last element.
OverwriteIdxPastEnd(n, lrank, rrank) ==
    (IF lrank # MPI_PROC_NULL THEN {0} ELSE {})
        \cup (IF rrank # MPI_PROC_NULL THEN {n} ELSE {})

\* The 0-based indices the two assignments write.
OverwriteIdx(n, lrank, rrank) ==
    (IF lrank # MPI_PROC_NULL THEN {0} ELSE {})
        \cup (IF rrank # MPI_PROC_NULL THEN {n - 1} ELSE {})

\* Lines 64-65, and i = 0 of line 68.
Overwrite(r) ==
    /\ pc[r] = "overwrite"
    /\ local_N[r] >= 1
    /\ psi' = [psi EXCEPT ![r] = OverwriteSeg(@, local_N[r], left_rank[r],
                                   right_rank[r], left_recv[r], right_recv[r])]
    /\ haloW' = [haloW EXCEPT ![r] =
                    OverwriteIdx(local_N[r], left_rank[r], right_rank[r])]
    /\ acc' = [acc EXCEPT ![r] =
                  OverwriteIdx(local_N[r], left_rank[r], right_rank[r])]
    /\ sweep0' = [sweep0 EXCEPT ![r] = psi'[r]]
    /\ sweepW' = [sweepW EXCEPT ![r] = [k \in 1 .. local_N[r] |-> 0]]
    /\ i' = [i EXCEPT ![r] = 0]
    /\ pc' = [pc EXCEPT ![r] = "sweep"]
    /\ UNCHANGED <<N, size, steps, eager, local_N, s, left_send, right_send,
                   left_recv, right_recv, left_rank, right_rank, sent, rcvd,
                   inBarrier, chan, startB, junk, sentLog, rcvdLog>>

\* The same lines when local_N = 0: the writes fall outside the vector.
\* The process faults, or the writes land in the memory around it.
OverwriteUB(r) ==
    /\ pc[r] = "overwrite"
    /\ local_N[r] < 1
    /\ \/ /\ pc' = [q \in Ranks |-> "aborted"]
          /\ UNCHANGED <<i, haloW, junk, acc>>
       \/ /\ pc' = [pc EXCEPT ![r] = "sweep"]
          /\ i' = [i EXCEPT ![r] = 0]
          /\ junk' = [junk EXCEPT ![r] =
                [lo |-> IF left_rank[r] # MPI_PROC_NULL THEN left_recv[r] ELSE @.lo,
                 hi |-> IF right_rank[r] # MPI_PROC_NULL THEN right_recv[r] ELSE @.hi]]
          /\ haloW' = [haloW EXCEPT ![r] =
                          OverwriteIdx(local_N[r], left_rank[r], right_rank[r])]
          /\ acc' = [acc EXCEPT ![r] =
                        OverwriteIdx(local_N[r], left_rank[r], right_rank[r])]
    /\ UNCHANGED <<N, size, steps, eager, local_N, psi, s, left_send,
                   right_send, left_recv, right_recv, left_rank, right_rank,
                   sent, rcvd, inBarrier, chan, startB, sentLog, rcvdLog,
                   sweep0, sweepW>>

\* ------------------------------------------------ lines 67-72: the sweep
SweepPair(r) ==
    /\ pc[r] = "sweep"
    /\ i[r] < local_N[r] - 1
    /\ psi' = [psi EXCEPT ![r] = PairUpdate(@, i[r] + 1)]
    /\ sweepW' = [sweepW EXCEPT ![r] =
                     [@ EXCEPT ![i[r] + 1] = @ + 1, ![i[r] + 2] = @ + 1]]
    /\ acc' = [acc EXCEPT ![r] = {i[r], i[r] + 1}]
    /\ i' = [i EXCEPT ![r] = i[r] + 1]
    /\ UNCHANGED <<N, size, steps, eager, pc, local_N, s, left_send,
                   right_send, left_recv, right_recv, left_rank, right_rank,
                   sent, rcvd, inBarrier, chan, startB, haloW, junk, sentLog,
                   rcvdLog, sweep0>>

\* i >= local_N - 1, then s++ of line 48.
SweepExit(r) ==
    /\ pc[r] = "sweep"
    /\ i[r] >= local_N[r] - 1
    /\ s' = [s EXCEPT ![r] = s[r] + 1]
    /\ pc' = [pc EXCEPT ![r] = "loop"]
    /\ UNCHANGED <<N, size, steps, eager, local_N, psi, i, left_send,
                   right_send, left_recv, right_recv, left_rank, right_rank,
                   sent, rcvd, inBarrier, chan, startB, haloW, junk, sentLog,
                   rcvdLog, sweep0, sweepW, acc>>

\* --------------------------------------------------------- specification
Worker(r) ==
    \/ Partition(r)
    \/ BarrierEnter(r)
    \/ BarrierLeave(r)
    \/ StepBegin(r)
    \/ StepBeginUB(r)
    \/ LoopExit(r)
    \/ \E ph \in {0, 1} : SendPart(r, ph)
    \/ \E ph \in {0, 1} : RecvPart(r, ph)
    \/ \E ph \in {0, 1} : SendrecvReturn(r, ph)
    \/ Overwrite(r)
    \/ OverwriteUB(r)
    \/ SweepPair(r)
    \/ SweepExit(r)

Next ==
    \/ \E r \in Ranks : Partition(r)
    \/ \E r \in Ranks : BarrierEnter(r)
    \/ \E r \in Ranks : BarrierLeave(r)
    \/ \E r \in Ranks : StepBegin(r)
    \/ \E r \in Ranks : StepBeginUB(r)
    \/ \E r \in Ranks : LoopExit(r)
    \/ \E r \in Ranks, ph \in {0, 1} : SendPart(r, ph)
    \/ \E r \in Ranks, ph \in {0, 1} : RecvPart(r, ph)
    \/ \E r \in Ranks, ph \in {0, 1} : SendrecvReturn(r, ph)
    \/ \E r \in Ranks : Overwrite(r)
    \/ \E r \in Ranks : OverwriteUB(r)
    \/ \E r \in Ranks : SweepPair(r)
    \/ \E r \in Ranks : SweepExit(r)

Spec == Init /\ [][Next]_vars

\* The runs on inputs the decomposition supports, N >= size: every segment
\* is non-empty and the two steps on an empty segment are never enabled.
InitValid == Init /\ N >= size

NextValid ==
    \/ \E r \in Ranks : Partition(r)
    \/ \E r \in Ranks : BarrierEnter(r)
    \/ \E r \in Ranks : BarrierLeave(r)
    \/ \E r \in Ranks : StepBegin(r)
    \/ \E r \in Ranks : LoopExit(r)
    \/ \E r \in Ranks, ph \in {0, 1} : SendPart(r, ph)
    \/ \E r \in Ranks, ph \in {0, 1} : RecvPart(r, ph)
    \/ \E r \in Ranks, ph \in {0, 1} : SendrecvReturn(r, ph)
    \/ \E r \in Ranks : Overwrite(r)
    \/ \E r \in Ranks : SweepPair(r)
    \/ \E r \in Ranks : SweepExit(r)

\* Some rank that can take a step eventually takes one: the operating
\* system does not stop all the processes for ever.  (Every rank being a
\* process that is scheduled fairly implies it.)
FairSpec == InitValid /\ [][NextValid]_vars /\ WF_vars(NextValid)

\* The same runs without the fairness, for what holds of every finite run.
ValidSpec == InitValid /\ [][NextValid]_vars

\* A process that stops for ever (its host hangs) at the head of the step
\* loop, line 48, before the exchange of its step s[r].  main has no line
\* for it and nothing in main, lines 48-61, reacts to it.  One process at
\* most hangs.
Hang(r) ==
    /\ pc[r] = "loop" /\ s[r] < steps
    /\ \A q \in Ranks : pc[q] # "hung"
    /\ pc' = [pc EXCEPT ![r] = "hung"]
    /\ UNCHANGED <<N, size, steps, eager, local_N, psi, s, i, left_send,
                   right_send, left_recv, right_recv, left_rank, right_rank,
                   sent, rcvd, inBarrier, chan, startB, haloW, junk, sentLog,
                   rcvdLog, sweep0, sweepW, acc>>

NextHang ==
    \/ \E r \in Ranks : Partition(r)
    \/ \E r \in Ranks : BarrierEnter(r)
    \/ \E r \in Ranks : BarrierLeave(r)
    \/ \E r \in Ranks : StepBegin(r)
    \/ \E r \in Ranks : LoopExit(r)
    \/ \E r \in Ranks, ph \in {0, 1} : SendPart(r, ph)
    \/ \E r \in Ranks, ph \in {0, 1} : RecvPart(r, ph)
    \/ \E r \in Ranks, ph \in {0, 1} : SendrecvReturn(r, ph)
    \/ \E r \in Ranks : Overwrite(r)
    \/ \E r \in Ranks : SweepPair(r)
    \/ \E r \in Ranks : SweepExit(r)
    \/ \E r \in Ranks : Hang(r)

\* The runs on valid inputs in which a process may hang: the processes that
\* have not hung are scheduled fairly, the hang itself is never forced.
HangSpec == InitValid /\ [][NextHang]_vars /\ WF_vars(NextValid)

\* ------------------------------------------- src/h_serial.cpp, lines 22-33
RECURSIVE SweepFrom(_, _)
\* The pairs k, k+1, ... of one sweep (k is 1-based), in increasing order.
SweepFrom(seg, k) ==
    IF k > Len(seg) - 1 THEN seg ELSE SweepFrom(PairUpdate(seg, k), k + 1)

SerialSweep(seg) == SweepFrom(seg, 1)

RECURSIVE SerialPsi(_, _)
\* psi of the serial program after st iterations of its step loop.
SerialPsi(n, st) ==
    IF st = 0 THEN [k \in 1 .. n |-> COne] ELSE SerialSweep(SerialPsi(n, st - 1))

\* ------------------------------------------------------ notions of claims
Valid == N >= size

AllDone == \A r \in Ranks : pc[r] = "done"

AllPartitioned == \A r \in Ranks : pc[r] # "start"

RECURSIVE ConcatUpTo(_)
\* The segments of ranks 0 .. r, one after the other.
ConcatUpTo(r) == IF r < 0 THEN <<>> ELSE ConcatUpTo(r - 1) \o psi[r]

\* Rank r has just executed the boundary overwrite of its step s[r].
JustOverwrote(r) == pc[r] = "sweep" /\ i[r] = 0

HasLeft(r) == r > 0

HasRight(r) == r < size - 1

\* What rank q's psi[0] and psi[local_N-1] held at the start of its step k.
StartFirst(q, k) == startB[q][k + 1][1]

StartLast(q, k) == startB[q][k + 1][2]

\* ------------------------------------------------------------------ C1
\* C1: once every rank has left the step loop, and size divides N, the
\* segments concatenated in rank order are the serial program's psi after
\* the same number of steps.
C1_SerialParallelEquivalence ==
    (AllDone /\ N % size = 0) => ConcatUpTo(size - 1) = SerialPsi(N, steps)

\* ------------------------------------------------------------------ C2
\* C2 as stated: when every local length is >= 1, right after the boundary
\* overwrite of step s, psi[0] is the left neighbour's last element as of the
\* start of its step s, and psi[local_N-1] is the right neighbour's first
\* element as of the start of its step s.
C2_HaloHoldsBothNeighbourValues ==
    \A r \in Ranks :
        (Valid /\ JustOverwrote(r)) =>
            /\ HasLeft(r) => psi[r][1] = StartLast(r - 1, s[r])
            /\ HasRight(r) => psi[r][local_N[r]] = StartFirst(r + 1, s[r])

\* C2 as amended: the same, except that the single element of a segment of
\* length 1 with two neighbours holds the right neighbour's value only.
C2_HaloHoldsNeighbourValue ==
    \A r \in Ranks :
        (Valid /\ JustOverwrote(r)) =>
            /\ (HasLeft(r) /\ (local_N[r] >= 2 \/ ~HasRight(r))) =>
                   psi[r][1] = StartLast(r - 1, s[r])
            /\ HasRight(r) => psi[r][local_N[r]] = StartFirst(r + 1, s[r])

\* A rank with both neighbours and at least two elements has overwritten
\* its two boundaries in a step after the first, with values that are no
\* longer the initial 1.
C2_Witness ==
    \E r \in Ranks :
        /\ JustOverwrote(r) /\ HasLeft(r) /\ HasRight(r)
        /\ local_N[r] >= 2 /\ s[r] >= 1
        /\ psi[r][1] # COne
        /\ psi[r][1] = StartLast(r - 1, s[r])
        /\ psi[r][local_N[r]] = StartFirst(r + 1, s[r])

\* ------------------------------------------------------------------ C3
\* C3: with N >= size, no boundary overwrite changes the element of global
\* index 0 (rank 0's psi[0]) or of global index N-1 (the last rank's
\* psi[local_N-1]).
C3_EdgesNotOverwritten ==
    [][\A r \in Ranks :
          (Valid /\ pc[r] = "overwrite" /\ pc'[r] = "sweep") =>
              /\ (r = 0) => psi'[r][1] = psi[r][1]
              /\ (r = size - 1) => psi'[r][local_N[r]] = psi[r][local_N[r]]]_vars

\* ------------------------------------------------------------------ C4
\* C4: with N < size the run aborts before any rank allocates its segment,
\* and no rank is ever in the step loop with a local length of 0.
C4_PartitionErrorAborts ==
    /\ (N < size) => \A r \in Ranks : pc[r] = "start"
    /\ \A r \in Ranks :
          pc[r] \in {"sendrecv0", "sendrecv1", "overwrite", "sweep"} =>
              local_N[r] >= 1

\* Both neighbours' values differ and the single element of a middle rank
\* has taken the right one: the case the amendment is about.
C2_WitnessSingleElement ==
    \E r \in Ranks :
        /\ Valid /\ JustOverwrote(r) /\ HasLeft(r) /\ HasRight(r)
        /\ local_N[r] = 1
        /\ StartLast(r - 1, s[r]) # StartFirst(r + 1, s[r])
        /\ psi[r][1] = StartFirst(r + 1, s[r])

\* ------------------------------------------------------------------ C5
\* C5: with N >= size, under fair scheduling, every rank eventually leaves
\* the step loop having executed its body exactly `steps` times; so no rank
\* stays blocked in an MPI_Sendrecv for ever.
C5_Termination ==
    Valid => <>(\A r \in Ranks :
                  pc[r] = "done" /\ s[r] = steps /\ Len(startB[r]) = steps)

\* All of at least three ranks are done after more than one step, the sends
\* having completed only on reception.
C5_Witness ==
    /\ Valid /\ size >= 3 /\ steps >= 2 /\ ~eager
    /\ \A r \in Ranks : pc[r] = "done" /\ s[r] = steps /\ Len(startB[r]) = steps

\* ------------------------------------------------------------------ C6
Adjacent(r, q) == q = r + 1 \/ q = r - 1

\* C6: the step counters of two adjacent ranks differ by at most 1, and a
\* rank whose two exchanges of step s have returned has neighbours that have
\* finished the sweeps of all steps before s.
C6_Lockstep ==
    \A r \in Ranks, q \in Ranks :
        Adjacent(r, q) =>
            /\ s[r] - s[q] <= 1
            /\ pc[r] \in {"overwrite", "sweep"} => s[q] >= s[r]

\* A rank is a full step ahead of its neighbour, which has both neighbours.
C6_Witness ==
    \E r \in Ranks, q \in Ranks :
        /\ Valid /\ Adjacent(r, q) /\ HasLeft(q) /\ HasRight(q)
        /\ s[r] = s[q] + 1
        /\ pc[r] = "sendrecv0" /\ pc[q] = "sweep"

\* ------------------------------------------------------------------ C7
\* The segments after k steps when all ranks step together: every rank takes
\* its neighbours' boundary values of the end of step k-1 and then sweeps.
RefOverwrite(prev, r) ==
    LET a == IF r > 0
             THEN [prev[r] EXCEPT ![1] = prev[r - 1][Len(prev[r - 1])]]
             ELSE prev[r]
    IN  IF r < size - 1 THEN [a EXCEPT ![Len(a)] = prev[r + 1][1]] ELSE a

RECURSIVE RefPsi(_)
RefPsi(k) ==
    IF k = 0
    THEN [r \in Ranks |-> [j \in 1 .. ((N \div size) + (IF r < N % size THEN 1 ELSE 0)) |-> COne]]
    ELSE LET prev == RefPsi(k - 1)
         IN  [r \in Ranks |-> SerialSweep(RefOverwrite(prev, r))]

\* C7: with N >= size, whatever the interleaving, the segment of a rank that
\* has completed k steps (and in particular its final segment) is the one
\* value determined by N, size and k.
C7_Determinism ==
    \A r \in Ranks :
        (Valid /\ pc[r] \in {"loop", "done"}) => psi[r] = RefPsi(s[r])[r]

\* All ranks are done after two steps or more, with a segment of three
\* elements among them and a rank that has both neighbours.
C7_Witness ==
    /\ Valid /\ AllDone /\ size >= 3 /\ steps >= 2
    /\ \E r \in Ranks : local_N[r] >= 2 /\ psi[r][1] # psi[r][2]

\* ------------------------------------------------------------------ C8
RECURSIVE SumLen(_)
\* The sum of the local lengths of ranks 0 .. r.
SumLen(r) == IF r < 0 THEN 0 ELSE SumLen(r - 1) + local_N[r]

\* offset_r, the sum of the lengths of the lower ranks.
Offset(r) == SumLen(r - 1)

\* C8: with N >= size, the local lengths sum to N, the offsets increase with
\* rank, and every global index lies in the segment of exactly one rank.
C8_PartitionCompleteness ==
    (Valid /\ AllPartitioned) =>
        /\ SumLen(size - 1) = N
        /\ \A r \in Ranks, q \in Ranks : r < q => Offset(r) < Offset(q)
        /\ \A r \in Ranks : r + 1 \in Ranks => Offset(r + 1) = Offset(r) + local_N[r]
        /\ \A g \in 0 .. (N - 1) :
              Cardinality({r \in Ranks :
                  Offset(r) <= g /\ g < Offset(r) + local_N[r]}) = 1

\* Every rank has its length, several ranks, and size does not divide N.
C8_Witness ==
    /\ Valid /\ AllPartitioned /\ size >= 3 /\ N % size = 2
    /\ SumLen(size - 1) = N

\* ------------------------------------------------------------------ C9
\* C9: with N >= size, exactly the N mod size lowest ranks have N/size + 1
\* elements and all others N/size; so two lengths differ by at most 1 and
\* the lengths never increase with rank.
C9_PartitionFairness ==
    (Valid /\ AllPartitioned) =>
        /\ \A r \in Ranks :
              /\ r < N % size => local_N[r] = (N \div size) + 1
              /\ r >= N % size => local_N[r] = N \div size
        /\ Cardinality({r \in Ranks : local_N[r] = (N \div size) + 1}) = N % size
        /\ \A r \in Ranks, q \in Ranks :
              /\ local_N[r] - local_N[q] <= 1
              /\ r < q => local_N[r] >= local_N[q]

\* Three ranks, one element left over: the lengths are 2, 1, 1.
C9_Witness ==
    /\ AllPartitioned /\ size = 3 /\ N = 4
    /\ local_N[0] = 2 /\ local_N[1] = 1 /\ local_N[2] = 1

\* ----------------------------------------------------------------- C10
InStep(r) == pc[r] \in {"sendrecv0", "sendrecv1", "overwrite", "sweep"}

\* C10: in every step left_rank and right_rank are the same: none for rank 0
\* on the left and for the last rank on the right, r-1 and r+1 otherwise;
\* every message in flight goes from a rank to an adjacent rank, tag 0 to
\* the left and tag 1 to the right; and the receive of a side without
\* neighbour never waits.
C10_Topology ==
    /\ \A r \in Ranks :
          InStep(r) =>
              /\ left_rank[r] = (IF r = 0 THEN MPI_PROC_NULL ELSE r - 1)
              /\ right_rank[r] = (IF r = size - 1 THEN MPI_PROC_NULL ELSE r + 1)
    /\ \A e \in Ranks \X Ranks :
          \A k \in 1 .. Len(chan[e]) :
              /\ chan[e][k].tag = 0 => e[2] = e[1] - 1
              /\ chan[e][k].tag = 1 => e[2] = e[1] + 1
    /\ \A r \in Ranks :
          /\ (pc[r] = "sendrecv0" /\ ~rcvd[r] /\ r = size - 1) => ENABLED RecvPart(r, 0)
          /\ (pc[r] = "sendrecv1" /\ ~rcvd[r] /\ r = 0) => ENABLED RecvPart(r, 1)

\* In a later step, rank 0 has done the send half of the first call, towards
\* its missing left side, and nothing of it is in flight; the last rank has
\* received nothing yet.
C10_Witness ==
    /\ size >= 3 /\ Valid
    /\ pc[0] = "sendrecv0" /\ sent[0] /\ s[0] >= 1
    /\ \A q \in Ranks : chan[<<0, q>>] = <<>>
    /\ pc[size - 1] = "sendrecv0" /\ ~rcvd[size - 1]

\* ----------------------------------------------------------------- C11
\* The number of rank boundaries between r and h.
Dist(r, h) == IF r >= h THEN r - h ELSE h - r

InExchange(r) == pc[r] \in {"sendrecv0", "sendrecv1"}

\* Rank r is inside an MPI_Sendrecv and no step of it is possible.
Blocked(r) == InExchange(r) /\ ~ENABLED Worker(r)

\* No message was sent a second time.
NoResend == \A m \in BagToSet(sentLog) : CopiesIn(m, sentLog) = 1

\* While h hangs before the exchange of its step s[h], a rank at distance d
\* never completes step s[h] + d - 1; so with steps >= s[h] + d, and in
\* particular with steps >= s[h] + size, it never leaves the step loop.
NeverFinishes(h) ==
    \A r \in Ranks :
        (r # h /\ (steps >= s[h] + size \/ steps >= s[h] + Dist(r, h))) =>
            /\ pc[r] # "done"
            /\ s[r] <= s[h] + Dist(r, h) - 1

OthersStalled(h) ==
    \A r \in Ranks :
        (r # h /\ (steps >= s[h] + size \/ steps >= s[h] + Dist(r, h))) =>
            Blocked(r)

SomeHung == \E h \in Ranks : pc[h] = "hung"

\* C11: once a rank h hangs before the exchange of its step s, no message is
\* ever sent again in place of a missing one; every other rank, when steps >=
\* s + size (and already when steps >= s + its distance from h), never leaves
\* the step loop, and from some point on is for ever inside an MPI_Sendrecv
\* with no step possible.
C11_HungWorkerStalls ==
    /\ [](\A h \in Ranks : (pc[h] = "hung") => (NoResend /\ NeverFinishes(h)))
    /\ SomeHung ~> [](\A h \in Ranks : (pc[h] = "hung") => OthersStalled(h))

\* Rank 0 of three hangs before its step 0; its neighbour is blocked in step
\* 0 and the rank beyond, having completed step 0 alone, in step 1.
C11_Witness ==
    /\ size = 3 /\ steps >= 2 /\ pc[0] = "hung" /\ s[0] = 0
    /\ Blocked(1) /\ s[1] = 0
    /\ Blocked(2) /\ s[2] = 1

\* ----------------------------------------------------------------- C12
\* cos(J dt) a - 1i sin(J dt) b, written out on real and imaginary parts.
PairVal(a, b) ==
    <<FxMul(COS_JDT, a[1]) + FxMul(SIN_JDT, b[2]),
      FxMul(COS_JDT, a[2]) - FxMul(SIN_JDT, b[1])>>

RECURSIVE ApplyPairs(_, _)
\* seg after the pairs (0,1), (1,2), ..., (n-1,n), in this order, each pair
\* computed from the two values its elements hold when its turn comes.
ApplyPairs(seg, n) ==
    IF n <= 0
    THEN seg
    ELSE LET p == ApplyPairs(seg, n - 1)
         IN  [p EXCEPT ![n] = PairVal(p[n], p[n + 1]),
                       ![n + 1] = PairVal(p[n + 1], p[n])]

\* How often the pairs (0,1) .. (n-1,n) write the element of 1-based
\* position k: once as the left element of pair k-1, once as the right
\* element of pair k-2.
WritesAfter(n, k) ==
    (IF k <= n THEN 1 ELSE 0) + (IF 2 <= k /\ k <= n + 1 THEN 1 ELSE 0)

\* Rank r has completed the sweep of a step and not yet begun the next one.
SweepDone(r) == pc[r] \in {"loop", "done"} /\ s[r] >= 1

\* C12: during a sweep, after i pairs the segment is the segment of the
\* sweep's start with the pairs 0 .. i-1 applied in increasing order, each
\* to the values then current; a completed sweep has applied the pairs
\* 0 .. L-2 (as the serial program's sweep does), has written elements 0 and
\* L-1 once and every interior element twice, and has left a segment of
\* length 1 as it was.
C12_SweepSequential ==
    \A r \in Ranks :
        /\ pc[r] = "sweep" =>
              /\ i[r] \in 0 .. local_N[r]
              /\ psi[r] = ApplyPairs(sweep0[r], i[r])
              /\ \A k \in 1 .. local_N[r] : sweepW[r][k] = WritesAfter(i[r], k)
        /\ SweepDone(r) =>
              /\ psi[r] = ApplyPairs(sweep0[r], local_N[r] - 1)
              /\ psi[r] = SerialSweep(sweep0[r])
              /\ local_N[r] >= 2 =>
                    /\ sweepW[r][1] = 1
                    /\ sweepW[r][local_N[r]] = 1
                    /\ \A k \in 2 .. (local_N[r] - 1) : sweepW[r][k] = 2
              /\ local_N[r] = 1 => (psi[r] = sweep0[r] /\ sweepW[r] = <<0>>)

\* A sweep over three elements or more is complete, in a step after the
\* first; its second element is not what its pair would have computed from
\* the values the sweep started with, the left one having been rewritten.
C12_Witness ==
    \E r \in Ranks :
        /\ SweepDone(r) /\ s[r] >= 2 /\ local_N[r] >= 3
        /\ psi[r] = ApplyPairs(sweep0[r], local_N[r] - 1)
        /\ sweepW[r][2] = 2
        /\ psi[r][2] # PairVal(sweep0[r][2], sweep0[r][3])
        /\ psi[r][1] = PairVal(sweep0[r][1], sweep0[r][2])

\* ----------------------------------------------------------------- C13
\* The message of rank q's step k to rank r with this tag.
Msg(q, r, tag, k) == [src |-> q, dst |-> r, tag |-> tag, step |-> k]

\* Both exchanges of rank r's step s[r] are complete: what it had to send is
\* sent (and received, when a send completes only on reception) and what it
\* had to receive is received.
ExchangesComplete(r) ==
    /\ ~sent[r] /\ ~rcvd[r]
    /\ HasLeft(r) =>
          /\ BagIn(Msg(r, r - 1, 0, s[r]), sentLog)
          /\ ~eager => BagIn(Msg(r, r - 1, 0, s[r]), rcvdLog)
          /\ BagIn(Msg(r - 1, r, 1, s[r]), rcvdLog)
    /\ HasRight(r) =>
          /\ BagIn(Msg(r, r + 1, 1, s[r]), sentLog)
          /\ ~eager => BagIn(Msg(r, r + 1, 1, s[r]), rcvdLog)
          /\ BagIn(Msg(r + 1, r, 0, s[r]), rcvdLog)

\* The segment as the sweep of the previous step left it (as allocated, in
\* step 0).
AsLeftBySweep(r) ==
    psi[r] = IF s[r] = 0
             THEN [k \in 1 .. local_N[r] |-> COne]
             ELSE ApplyPairs(sweep0[r], local_N[r] - 1)

PhaseOrder ==
    {<<"start", "barrier">>, <<"barrier", "loop">>, <<"loop", "sendrecv0">>,
     <<"sendrecv0", "sendrecv1">>, <<"sendrecv1", "overwrite">>,
     <<"overwrite", "sweep">>, <<"sweep", "loop">>, <<"loop", "done">>}

C13_StateOrder ==
    \A r \in Ranks :
        local_N[r] >= 1 =>
            /\ pc[r] \in {"sendrecv0", "sendrecv1", "overwrite"} =>
                  /\ Len(startB[r]) = s[r] + 1
                  /\ left_send[r] = psi[r][1]
                  /\ right_send[r] = psi[r][local_N[r]]
                  /\ left_send[r] = StartFirst(r, s[r])
                  /\ right_send[r] = StartLast(r, s[r])
                  /\ AsLeftBySweep(r)
            /\ pc[r] = "sendrecv0" =>
                  /\ left_recv[r] = CZero
                  /\ ~rcvd[r] => right_recv[r] = CZero
            /\ (pc[r] = "sendrecv1" /\ ~rcvd[r]) => left_recv[r] = CZero
            /\ \A q \in Ranks : \A k \in 1 .. Len(chan[<<r, q>>]) :
                  LET m == chan[<<r, q>>][k]
                  IN  m.val = IF m.tag = 0 THEN StartFirst(r, m.step)
                                           ELSE StartLast(r, m.step)
            /\ pc[r] \in {"overwrite", "sweep"} => ExchangesComplete(r)
            /\ pc[r] = "sweep" =>
                  /\ haloW[r] = (IF HasLeft(r) THEN {0} ELSE {})
                                    \cup (IF HasRight(r) THEN {local_N[r] - 1} ELSE {})
                  /\ HasRight(r) => sweep0[r][local_N[r]] = right_recv[r]
                  /\ (HasLeft(r) /\ (local_N[r] >= 2 \/ ~HasRight(r))) =>
                        sweep0[r][1] = left_recv[r]

C13_StepOrder ==
    \A r \in Ranks :
        /\ pc'[r] # pc[r] => (<<pc[r], pc'[r]>> \in PhaseOrder \/ pc'[r] = "aborted")
        /\ psi'[r] # psi[r] => pc[r] \in {"start", "overwrite", "sweep"}
        /\ (left_send'[r] # left_send[r] \/ right_send'[r] # right_send[r]) =>
              (pc[r] = "loop" /\ pc'[r] = "sendrecv0")
        /\ (left_recv'[r] # left_recv[r] \/ right_recv'[r] # right_recv[r]) =>
              pc[r] \in {"loop", "sendrecv0", "sendrecv1"}

\* C13: a rank with a non-empty segment passes through capture, first
\* exchange, second exchange, boundary overwrite and sweep in this order in
\* every step.  From the capture to the overwrite its segment is as its
\* previous sweep left it and the captured values are its two boundary
\* elements; nothing is received before the capture; the overwrite happens
\* with both exchanges complete and the sweep starts from the overwritten
\* segment; every message in flight carries the sender's boundary value of
\* the start of the step it was sent in.
C13_PhaseOrder == [](C13_StateOrder) /\ [][C13_StepOrder]_vars

\* In a step after the first, a rank with two neighbours and two elements or
\* more is about to overwrite its boundaries: what it sent to the right is
\* still its own last element, which is neither the initial 1 nor the value
\* received from there.
C13_Witness ==
    \E r \in Ranks :
        /\ pc[r] = "overwrite" /\ s[r] >= 1 /\ local_N[r] >= 2
        /\ HasLeft(r) /\ HasRight(r) /\ ExchangesComplete(r)
        /\ left_send[r] = psi[r][1]
        /\ right_send[r] = psi[r][local_N[r]] /\ right_send[r] # COne
        /\ right_recv[r] # psi[r][local_N[r]]

\* ----------------------------------------------------------------- C14
RECURSIVE PairsDone(_, _)
\* The serial sweep loop's psi after its first n iterations.
PairsDone(seg, n) ==
    IF n <= 0 THEN seg ELSE PairUpdate(PairsDone(seg, n - 1), n)

\* C14: with a single rank, both neighbours are absent in every step, no
\* message is ever sent, received or in flight, the receive buffers stay 0,
\* the boundary overwrite writes no element, and the segment follows the
\* serial program's psi on N elements: after s steps it is the serial psi
\* after s steps, and after i pairs of the next sweep it is that psi with
\* the serial sweep's first i pairs applied.
C14_SerialIsSingleRank ==
    (size = 1) =>
        /\ sentLog = EmptyBag /\ rcvdLog = EmptyBag
        /\ chan[<<0, 0>>] = <<>>
        /\ left_recv[0] = CZero /\ right_recv[0] = CZero
        /\ haloW[0] = {}
        /\ InStep(0) =>
              (left_rank[0] = MPI_PROC_NULL /\ right_rank[0] = MPI_PROC_NULL)
        /\ pc[0] \in {"barrier", "loop", "done", "sendrecv0", "sendrecv1", "overwrite"} =>
              (local_N[0] = N /\ psi[0] = SerialPsi(N, s[0]))
        /\ pc[0] = "sweep" =>
              /\ sweep0[0] = SerialPsi(N, s[0])
              /\ psi[0] = PairsDone(SerialPsi(N, s[0]), i[0])
              /\ SweepFrom(psi[0], i[0] + 1) = SerialPsi(N, s[0] + 1)

\* The single rank is done after two steps on three elements or more, which
\* are no longer equal.
C14_Witness ==
    /\ size = 1 /\ N >= 3 /\ pc[0] = "done" /\ s[0] = steps /\ steps >= 2
    /\ psi[0] = SerialPsi(N, steps)
    /\ psi[0][1] # psi[0][2] /\ psi[0][2] # psi[0][3]

\* ----------------------------------------------------------------- C15
\* The step is one of rank r: each action of a rank changes its position,
\* its sweep counter or its progress in MPI_Barrier or MPI_Sendrecv.
StepOf(r) ==
    \/ pc'[r] # pc[r]
    \/ i'[r] # i[r]
    \/ sent'[r] # sent[r]
    \/ rcvd'[r] # rcvd[r]
    \/ inBarrier'[r] # inBarrier[r]

\* What a step of rank r leaves alone: the segment and the local length of
\* every other rank; and, when the step is the boundary overwrite, the local
\* length, the length of the segment and its elements 1 .. local_N-2.
C15_Frame(r) ==
    /\ StepOf(r) =>
          \A q \in Ranks \ {r} : psi'[q] = psi[q] /\ local_N'[q] = local_N[q]
    /\ (pc[r] = "overwrite" /\ pc'[r] = "sweep") =>
          /\ local_N'[r] = local_N[r]
          /\ Len(psi'[r]) = Len(psi[r])
          /\ \A k \in 2 .. (Len(psi[r]) - 1) : psi'[r][k] = psi[r][k]

\* C15: no step of a rank changes an element or the length of another
\* rank's segment, and the boundary overwrite changes at most psi[0] and
\* psi[local_N-1] of the rank's own segment.
C15_WritesAreLocal == [][\A r \in Ranks : C15_Frame(r)]_vars

\* A rank with three elements or more has just overwritten its last element
\* with a value that differs from the one it held, in a step after the first.
C15_Witness ==
    \E r \in Ranks :
        /\ JustOverwrote(r) /\ s[r] >= 1 /\ local_N[r] >= 3 /\ HasRight(r)
        /\ psi[r][local_N[r]] # StartLast(r, s[r])
        /\ psi[r][local_N[r]] = right_recv[r]

\* ----------------------------------------------------------------- C16
\* The messages with this tag in flight from q to r.
InFlight(q, r, tag) ==
    {k \in 1 .. Len(chan[<<q, r>>]) : chan[<<q, r>>][k].tag = tag}

\* At most one message per pair and tag, none between ranks that are not
\* adjacent, and a waiting receive only finds a message of its own step.
C16_Channels ==
    /\ \A q \in Ranks, r \in Ranks :
          /\ \A tag \in {0, 1} : Cardinality(InFlight(q, r, tag)) <= 1
          /\ ~Adjacent(q, r) => chan[<<q, r>>] = <<>>
    /\ \A r \in Ranks, ph \in {0, 1} :
          (pc[r] = SrPc(ph) /\ ~rcvd[r] /\ Source(r, ph) # MPI_PROC_NULL) =>
              \A k \in InFlight(Source(r, ph), r, RecvTag(ph)) :
                  chan[<<Source(r, ph), r>>][k].step = s[r]

\* C16: in every reachable state, at most one message per ordered pair of
\* ranks and tag is in flight, none between ranks that are not adjacent; and
\* whenever a rank waits in the receive half of an MPI_Sendrecv of its step
\* s, a message in flight that this receive can match is the one its
\* neighbour sent in the neighbour's step s.
C16_BoundedChannels == [](C16_Channels)

\* A rank is still in the sweep of step 0 while its right neighbour's message
\* of step 1 is already in flight to it: it waits there for the receive of
\* the rank's step 1.
C16_Witness ==
    \E r \in Ranks :
        /\ HasRight(r) /\ pc[r] = "sweep" /\ s[r] = 0
        /\ Len(chan[<<r + 1, r>>]) = 1
        /\ chan[<<r + 1, r>>][1].step = 1
        /\ chan[<<r + 1, r>>][1].tag = 0

\* ----------------------------------------------------------------- C17
\* The messages in flight, with their envelopes.
Undelivered ==
    UNION {{Msg(e[1], e[2], chan[e][k].tag, chan[e][k].step) :
               k \in 1 .. Len(chan[e])} : e \in Ranks \X Ranks}

SentInStep(k) == {m \in BagToSet(sentLog) : m.step = k}

\* Sent = received + in flight, each message once; 2 (size - 1) messages per
\* step and empty channels once every rank is done.
C17_Conservation ==
    /\ \A m \in BagToSet(sentLog) :
          /\ CopiesIn(m, sentLog) = 1
          /\ m.dst = IF m.tag = 0 THEN m.src - 1 ELSE m.src + 1
          /\ m.dst \in Ranks
    /\ \A m \in BagToSet(rcvdLog) : CopiesIn(m, rcvdLog) = 1
    /\ BagToSet(sentLog) = BagToSet(rcvdLog) \cup Undelivered
    /\ BagToSet(rcvdLog) \cap Undelivered = {}
    /\ AllDone =>
          /\ \A k \in 0 .. (steps - 1) : Cardinality(SentInStep(k)) = 2 * (size - 1)
          /\ rcvdLog = sentLog
          /\ \A e \in Ranks \X Ranks : chan[e] = <<>>

\* C17: at every moment, every message sent so far was sent once, to an
\* adjacent rank, with tag 0 to the left and tag 1 to the right, and is
\* either in flight or was received once, by the rank it was addressed to;
\* and once every rank has left the step loop, each step has seen exactly
\* 2 (size - 1) messages, all of them received, and no channel holds a message.
C17_MessageConservation == [](C17_Conservation)

\* Three ranks are done after two steps: eight messages were sent and
\* received, four per step.
C17_Witness ==
    /\ AllDone /\ size = 3 /\ steps = 2
    /\ BagCardinality(sentLog) = 8 /\ rcvdLog = sentLog
    /\ Cardinality(SentInStep(1)) = 4

\* ----------------------------------------------------------------- C18
\* C18: with N >= size, every rank has a non-empty segment of local_N
\* elements, the steps that read or write outside an empty segment are never
\* possible, and every access to the segment (the captures at 0 and
\* local_N-1, the boundary overwrite, the sweep's i and i+1) uses indices
\* within 0 .. local_N-1.
C18_IndexSafety ==
    Valid =>
        \A r \in Ranks :
            /\ ~ENABLED StepBeginUB(r)
            /\ ~ENABLED OverwriteUB(r)
            /\ pc[r] # "start" =>
                  /\ local_N[r] >= 1
                  /\ Len(psi[r]) = local_N[r]
                  /\ acc[r] \subseteq 0 .. (local_N[r] - 1)
                  /\ haloW[r] \subseteq 0 .. (local_N[r] - 1)
            /\ pc[r] \in {"sendrecv0", "sendrecv1"} => acc[r] = {0, local_N[r] - 1}
            /\ pc[r] = "sweep" =>
                  /\ i[r] >= 0
                  /\ i[r] <= local_N[r] - 1
                  /\ ENABLED SweepPair(r) => i[r] + 1 <= local_N[r] - 1
                  /\ i[r] >= 1 => acc[r] = {i[r] - 1, i[r]}

\* With several ranks, a sweep over three elements or more has just done its
\* last pair, the one that reaches the last element.
C18_Witness ==
    \E r \in Ranks :
        /\ Valid /\ size >= 2 /\ pc[r] = "sweep" /\ local_N[r] >= 3 /\ s[r] >= 1
        /\ i[r] = local_N[r] - 1
        /\ acc[r] = {local_N[r] - 2, local_N[r] - 1}

====
